---------------------------- MODULE Spec2Model ----------------------------
(***************************************************************************)
(* A model of the executable examples of the rsd-summerschool notebooks:   *)
(*   ch01dataanddesign/120dataclass.ipynb.py   Person validators, the two  *)
(*                                             Person classes,             *)
(*                                             append_to_list              *)
(*   ch01dataanddesign/115typehints.ipynb.py   Calculator, four versions   *)
(*   ch01dataanddesign/greengraph              Greengraph, Map.deg2num,    *)
(*                                             Map.green                   *)
(*   ch02testsandsmells/05Advanced.ipynb.py    map_at, partial_derivative, *)
(*                                             smart_square, two versions  *)
(*   ch04performance/020numpy.ipynb.py         mandel1 ... mandel7         *)
(* Every call of an example is one action.  The notebooks share no data,   *)
(* so each has a specification of its own over the same variables: the     *)
(* state records the last call (op, args), what it did to its              *)
(* collaborators (mock_calls) and how it ended (outcome), and what the     *)
(* examples keep between calls: an instance's attributes, the module-level *)
(* variables, the list objects, the earlier calls.                         *)
(***************************************************************************)
EXTENDS Integers, Sequences, FiniteSets, TLC

VARIABLES
    op,          \* name of the last operation called ("none" initially)
    args,        \* the arguments of that call
    outcome,     \* how it ended: a return value or a raised exception
    mock_calls,  \* calls the operation made to mocked/outbound callables
    branch,      \* the branch of the operation's if/elif chain that ran
    calc,        \* the Calculator instance (its attribute a), or NoCalc
    versions,    \* how each version of the operation ends on the same call
    globals,     \* the module-level variables the examples read
    history,     \* the calls made so far to an example that is called
                 \* repeatedly, oldest first: [op, args, outcome]
    graph,       \* the Greengraph instance's attributes steps and
                 \* green_at_each_location
    heap         \* the list objects: heap[id] is the content of list id

\* The variables of the examples that keep state between calls.
kept == <<versions, globals, history, graph, heap>>

vars == <<op, args, outcome, mock_calls, branch, calc, versions, globals,
          history, graph, heap>>

-----------------------------------------------------------------------------
(* Bounds of the model                                                     *)

MaxNameLen == 3     \* longest Person name
MaxStrLen == 3      \* longest str argument of smart_square
MaxSeqLen == 3      \* longest sequence handed to Calculator.idx
MaxAtLen == 2       \* longest vector handed to partial_derivative
MaxSteps == 2       \* most steps asked of a Greengraph
MaxCalls == 3       \* most calls of append_to_list in a behaviour
MaxLimit == 3       \* largest limit handed to a mandel routine
MaxZoom == 2        \* largest zoom handed to deg2num

-----------------------------------------------------------------------------
(* Python values.  Every value has the same shape so that values of        *)
(* different types can be compared: t is the type name, a number is        *)
(* num / 2^exp (exp = 0 for int and bool; floats are kept to the dyadic    *)
(* rationals, on which float arithmetic is exact), s is a str's text as a  *)
(* sequence of characters.                                                 *)

RECURSIVE Pow(_, _)
Pow(b, n) == IF n = 0 THEN 1 ELSE b * Pow(b, n - 1)

Abs(n) == IF n < 0 THEN -n ELSE n

PyInt(n) == [t |-> "int", num |-> n, exp |-> 0, s |-> <<>>]
PyBool(b) == [t |-> "bool", num |-> IF b THEN 1 ELSE 0, exp |-> 0, s |-> <<>>]
PyStrVal(s) == [t |-> "str", num |-> 0, exp |-> 0, s |-> s]
PyNone == [t |-> "NoneType", num |-> 0, exp |-> 0, s |-> <<>>]
Unbound == [t |-> "unbound", num |-> 0, exp |-> 0, s |-> <<>>]

\* A float num / 2^exp in lowest terms.
RECURSIVE PyFloat(_, _)
PyFloat(n, e) ==
    IF e > 0 /\ n % 2 = 0 THEN PyFloat(n \div 2, e - 1)
    ELSE [t |-> "float", num |-> n, exp |-> e, s |-> <<>>]

IsNumber(a) == a.t \in {"int", "bool", "float"}

\* Outcomes of a call.
NoValue == "no value"
Return(v) == [kind |-> "return", value |-> v, exc |-> "", msg |-> ""]
Raise(e, m) == [kind |-> "raise", value |-> NoValue, exc |-> e, msg |-> m]

\* All character sequences over alphabet of length at most n.
StringsUpTo(alphabet, n) == UNION {[1..k -> alphabet] : k \in 0..n}

\* Python's `sub in s` for str operands: s has sub as a substring.
PyStrIn(sub, s) ==
    \E i \in 0..(Len(s) - Len(sub)) : SubSeq(s, i + 1, i + Len(sub)) = sub

\* Python's `x in lst` for a list of ints.
PyListIn(x, lst) == \E i \in 1..Len(lst) : lst[i] = x

-----------------------------------------------------------------------------
(* Python's built-in conversions and arithmetic on these values            *)

\* isinstance(a, types): bool is a subclass of int.
PyIsInstance(a, types) ==
    (IF a.t = "bool" THEN {"bool", "int"} ELSE {a.t}) \cap types # {}

PyTruthy(a) ==
    CASE IsNumber(a) -> a.num # 0
      [] a.t = "str" -> a.s # <<>>
      [] OTHER -> FALSE

\* The type of the result of + - * on two numbers.
ArithType(a, b) == IF a.t = "float" \/ b.t = "float" THEN "float" ELSE "int"

Number(t, n, e) == IF t = "float" THEN PyFloat(n, e) ELSE PyInt(n)

PyAdd(a, b) ==
    Number(ArithType(a, b),
           a.num * Pow(2, b.exp) + b.num * Pow(2, a.exp), a.exp + b.exp)

PySub(a, b) ==
    Number(ArithType(a, b),
           a.num * Pow(2, b.exp) - b.num * Pow(2, a.exp), a.exp + b.exp)

PyMul(a, b) == Number(ArithType(a, b), a.num * b.num, a.exp + b.exp)

RECURSIVE Log2(_)
Log2(n) == IF n <= 1 THEN 0 ELSE 1 + Log2(n \div 2)

\* a / b (true division, always a float) for a divisor that is zero or
\* plus or minus a power of two, where the quotient is exact.  The sign of
\* a zero is not kept.
PyTrueDiv(a, b) ==
    IF b.num = 0 THEN Raise("ZeroDivisionError", "division by zero")
    ELSE Return(PyFloat((IF b.num < 0 THEN -1 ELSE 1) * a.num * Pow(2, b.exp),
                        a.exp + Log2(Abs(b.num))))

DigitChars == <<"0", "1", "2", "3", "4", "5", "6", "7", "8", "9">>

RECURSIVE Digits(_)
Digits(n) ==
    IF n < 10 THEN <<DigitChars[n + 1]>>
    ELSE Digits(n \div 10) \o <<DigitChars[(n % 10) + 1]>>

RECURSIVE ZeroPad(_, _)
ZeroPad(s, width) == IF Len(s) >= width THEN s ELSE ZeroPad(<<"0">> \o s, width)

\* str(a).  A float num / 2^exp prints its exact decimal expansion, which
\* has exp fractional digits (".0" when it has none).
PyStr(a) ==
    CASE a.t = "str" -> a.s
      [] a.t = "int" ->
            (IF a.num < 0 THEN <<"-">> ELSE <<>>) \o Digits(Abs(a.num))
      [] a.t = "bool" ->
            IF a.num = 1 THEN <<"T", "r", "u", "e">>
            ELSE <<"F", "a", "l", "s", "e">>
      [] a.t = "float" ->
            LET p == Pow(2, a.exp)
                m == Abs(a.num)
            IN  (IF a.num < 0 THEN <<"-">> ELSE <<>>)
                    \o Digits(m \div p) \o <<".">>
                    \o (IF a.exp = 0 THEN <<"0">>
                        ELSE ZeroPad(Digits((m % p) * Pow(5, a.exp)), a.exp))
      [] OTHER -> <<"N", "o", "n", "e">>

\* sep.join(parts)
RECURSIVE PyJoin(_, _)
PyJoin(sep, parts) ==
    IF parts = <<>> THEN <<>>
    ELSE IF Len(parts) = 1 THEN parts[1]
    ELSE parts[1] \o sep \o PyJoin(sep, Tail(parts))

\* map(str, xs)
MapStr(xs) == [i \in 1..Len(xs) |-> PyStr(xs[i])]

\* str.strip(): leading and trailing blanks removed.
RECURSIVE Strip(_)
Strip(s) ==
    IF s = <<>> THEN s
    ELSE IF s[1] = " " THEN Strip(Tail(s))
    ELSE IF s[Len(s)] = " " THEN Strip(SubSeq(s, 1, Len(s) - 1))
    ELSE s

IsDigit(c) == \E d \in 1..10 : DigitChars[d] = c
DigitValue(c) == (CHOOSE d \in 1..10 : DigitChars[d] = c) - 1

RECURSIVE DigitsValue(_)
DigitsValue(s) ==
    IF s = <<>> THEN 0
    ELSE 10 * DigitsValue(SubSeq(s, 1, Len(s) - 1)) + DigitValue(s[Len(s)])

AllDigits(s) == \A i \in 1..Len(s) : IsDigit(s[i])

\* float(s) for a str: blanks are stripped, then an optional sign, then
\* digits with at most one point and at least one digit.  The result is
\* [ok, neg, n, k]: the decimal (-1)^neg * n / 10^k.
ParseDecimal(s) ==
    LET t == Strip(s)
        signed == t # <<>> /\ t[1] \in {"-", "+"}
        body == IF signed THEN Tail(t) ELSE t
        dots == {i \in 1..Len(body) : body[i] = "."}
        dot == IF dots = {} THEN Len(body) + 1
               ELSE CHOOSE i \in dots : \A j \in dots : i <= j
        whole == SubSeq(body, 1, dot - 1)
        frac == SubSeq(body, dot + 1, Len(body))
    IN  [ok |-> /\ AllDigits(whole) /\ AllDigits(frac)
                /\ Len(whole) + Len(frac) >= 1,
         neg |-> signed /\ t[1] = "-",
         n |-> IF AllDigits(whole) /\ AllDigits(frac)
               THEN DigitsValue(whole \o frac) ELSE 0,
         k |-> Len(frac)]

\* The decimals that a float holds exactly: n / 10^k with 5^k dividing n.
ExactDecimal(d) == d.n % Pow(5, d.k) = 0

\* float(a) for a bool or a str.
PyFloatOf(a) ==
    IF IsNumber(a) THEN Return(PyFloat(a.num, a.exp))
    ELSE LET d == ParseDecimal(a.s)
         IN  IF ~d.ok
             THEN Raise("ValueError", "could not convert string to float")
             ELSE Return(PyFloat((IF d.neg THEN -1 ELSE 1)
                                     * (d.n \div Pow(5, d.k)), d.k))

\* repr of type(a), as an f-string prints it.
ClassRepr(a) == "<class '" \o a.t \o "'>"

-----------------------------------------------------------------------------
(* 120dataclass.ipynb.py: the pydantic Person validators                   *)

NameChars == {"x", " "}
Names == StringsUpTo(NameChars, MaxNameLen)
Days == -1..33
Months == -1..14
Years == {1900, 1999, 2000, 2001, 2004, 2100}

Persons == [birth_day : Days, birth_month : Months, birth_year : Years,
            name : Names]

NameMsg == "the name must have first and last names separated by <space>"

\* Person.validate_name, the @field_validator("name")
validate_name_field(v) ==
    IF ~PyStrIn(<<" ">>, v) THEN Raise("ValueError", NameMsg)
    ELSE Return(v)

\* Mutation of validate_name_model: the test of the name is left out.
validate_name_model_nocheck(v) ==
    IF v["birth_month"] < 1 \/ v["birth_month"] > 12
    THEN Raise("ValueError", "birth month should be between 1 and 12")
    ELSE Return(v)

\* Person.validate_name, the @model_validator(mode="after").  v is the
\* mapping of the four field values that the body subscripts.
validate_name_model(v) ==
    IF ~PyStrIn(<<" ">>, v["name"])
    THEN Raise("ValueError", NameMsg)
    ELSE IF v["birth_month"] < 1 \/ v["birth_month"] > 12
    THEN Raise("ValueError", "birth month should be between 1 and 12")
    ELSE IF /\ PyListIn(v["birth_month"], <<1, 3, 5, 7, 8, 10, 12>>)
            /\ (v["birth_day"] < 1 \/ v["birth_day"] > 31)
    THEN Raise("ValueError", "birth day should be between 1 and 31")
    ELSE IF /\ PyListIn(v["birth_month"], <<4, 6, 9, 11>>)
            /\ (v["birth_day"] < 1 \/ v["birth_day"] > 31)
    THEN Raise("ValueError", "birth day should be between 1 and 30")
    ELSE IF v["birth_month"] = 2
    THEN IF v["birth_year"] % 400 = 0 \/ v["birth_year"] % 4 = 0
         THEN IF v["birth_day"] < 1 \/ v["birth_day"] > 29
              THEN Raise("ValueError", "birth day should be between 1 and 29")
              ELSE Return(v)
         ELSE Raise("ValueError", "birth day should be between 1 and 28")
    ELSE Return(v)

\* A Person is built from a name alone: only the field validator runs.
FieldValidate ==
    /\ op = "none"
    /\ \E v \in Names :
        /\ op' = "validate_name_field"
        /\ args' = [name |-> v]
        /\ outcome' = validate_name_field(v)
        /\ mock_calls' = <<>>
        /\ UNCHANGED <<branch, calc, kept>>

\* A Person is built from a full record: the model validator runs.
ModelValidate ==
    /\ op = "none"
    /\ \E v \in Persons :
        /\ op' = "validate_name_model"
        /\ args' = v
        /\ outcome' = validate_name_model(v)
        /\ mock_calls' = <<>>
        /\ UNCHANGED <<branch, calc, kept>>

NextPerson == FieldValidate \/ ModelValidate

-----------------------------------------------------------------------------
(* 115typehints.ipynb.py: Calculator (TypeAlias/TypeVar version)           *)

NoCalc == [a |-> Unbound]

\* Python's sqnc[i] for a list, tuple or str: negative indices count from
\* the end, an index outside -len..len-1 raises IndexError.
PyGetItem(sqnc, i) ==
    IF i.t \notin {"int", "bool"}
    THEN Raise("TypeError", "indices must be integers")
    ELSE IF 0 <= i.num /\ i.num < Len(sqnc) THEN Return(sqnc[i.num + 1])
    ELSE IF -Len(sqnc) <= i.num /\ i.num < 0
    THEN Return(sqnc[Len(sqnc) + i.num + 1])
    ELSE Raise("IndexError", "index out of range")

\* Calculator.__init__
Calculator(a) == [a |-> a]

\* Mutation of idx: no try/except around the subscript.
idx_nocatch(self, sqnc) ==
    IF self.a.t = "float"
    THEN [out |-> Raise("ValueError", "a should be int"), getitem |-> <<>>]
    ELSE [out |-> PyGetItem(sqnc, self.a), getitem |-> <<self.a>>]

\* Calculator.idx: the outcome and the subscripts applied to sqnc.
idx(self, sqnc) ==
    IF self.a.t = "float"
    THEN [out |-> Raise("ValueError", "a should be int"), getitem |-> <<>>]
    ELSE LET rslt == PyGetItem(sqnc, self.a)
         IN  [out |-> IF rslt.kind = "raise" /\ rslt.exc = "IndexError"
                      THEN Raise("ValueError", "sequence too small")
                      ELSE rslt,
              getitem |-> <<self.a>>]

CalcValues ==
    {PyInt(n) : n \in -(MaxSeqLen + 1)..(MaxSeqLen + 1)}
        \cup {PyBool(b) : b \in BOOLEAN}
        \cup {PyFloat(0, 0), PyFloat(1, 0), PyFloat(3, 1), PyFloat(-1, 0)}
Sqncs == StringsUpTo({"p", "q"}, MaxSeqLen)

NewCalculator ==
    /\ op = "none"
    /\ \E a \in CalcValues :
        /\ calc' = Calculator(a)
        /\ op' = "Calculator"
        /\ args' = <<a>>
        /\ UNCHANGED <<outcome, mock_calls, branch, kept>>

Idx ==
    /\ op = "Calculator"
    /\ \E sqnc \in Sqncs :
        LET r == idx(calc, sqnc)
        IN  /\ op' = "idx"
            /\ args' = sqnc
            /\ outcome' = r.out
            /\ mock_calls' = r.getitem
            /\ UNCHANGED <<branch, calc, kept>>

NextCalculator == NewCalculator \/ Idx

-----------------------------------------------------------------------------
(* 05Advanced.ipynb.py: map_at                                             *)

\* Mutation of map_at: ll is built latitude first.
map_at_latfirst(lat, long, satellite, zoom, size, requests_get) ==
    LET base == "https://static-maps.yandex.ru/1.x/?"
        params == [z |-> zoom,
                   size |-> PyJoin(<<",">>, MapStr(size)),
                   ll |-> PyJoin(<<",">>, MapStr(<<lat, long>>)),
                   lang |-> "en_US",
                   l |-> IF PyTruthy(satellite) THEN "sat" ELSE "map"]
    IN  [out |-> requests_get,
         calls |-> <<[fn |-> "requests.get", args |-> <<base>>,
                      kwargs |-> [params |-> params],
                      result |-> requests_get]>>]

\* map_at.  requests_get is what the (mocked) requests.get does when
\* called: the response it returns or the exception it raises.
map_at(lat, long, satellite, zoom, size, requests_get) ==
    LET base == "https://static-maps.yandex.ru/1.x/?"
        params == [z |-> zoom,
                   size |-> PyJoin(<<",">>, MapStr(size)),
                   ll |-> PyJoin(<<",">>, MapStr(<<long, lat>>)),
                   lang |-> "en_US",
                   l |-> IF PyTruthy(satellite) THEN "sat" ELSE "map"]
    IN  [out |-> requests_get,
         calls |-> <<[fn |-> "requests.get", args |-> <<base>>,
                      kwargs |-> [params |-> params],
                      result |-> requests_get]>>]

Coords == {PyFloat(51, 0), PyFloat(0, 0), PyFloat(103, 1), PyFloat(-1, 3),
           PyInt(51), PyInt(-7)}
Zooms == {PyInt(12), PyInt(10)}
Sizes == {<<PyInt(400), PyInt(400)>>, <<PyInt(200), PyInt(300)>>}
GetEffects == {Return("response 200"), Return("response 404"),
               Raise("ConnectionError", "")}

MapAt ==
    /\ op = "none"
    /\ \E lat \in Coords, long \in Coords, satellite \in BOOLEAN,
          zoom \in Zooms, size \in Sizes, requests_get \in GetEffects :
        LET r == map_at(lat, long, PyBool(satellite), zoom, size, requests_get)
        IN  /\ op' = "map_at"
            /\ args' = [lat |-> lat, long |-> long,
                        satellite |-> PyBool(satellite),
                        zoom |-> zoom, size |-> size]
            /\ outcome' = r.out
            /\ mock_calls' = r.calls
            /\ UNCHANGED <<branch, calc, kept>>

-----------------------------------------------------------------------------
(* 05Advanced.ipynb.py: partial_derivative                                 *)

\* The position in a list that Python's index i names, 0 when there is none.
PyIndex(lst, i) ==
    IF 0 <= i /\ i < Len(lst) THEN i + 1
    ELSE IF -Len(lst) <= i /\ i < 0 THEN Len(lst) + i + 1
    ELSE 0

FunctionCall(x, result) ==
    [fn |-> "function", args |-> <<x>>, kwargs |-> <<>>, result |-> result]

\* Mutation of partial_derivative: the step is subtracted.
partial_derivative_minus(side_effect, at, direction, delta) ==
    LET f_x == side_effect[1]
        i == PyIndex(at, direction)
        x_plus_delta == IF i = 0 THEN at
                        ELSE [at EXCEPT ![i] = PySub(@, delta)]
        f_x_plus_delta == side_effect[2]
    IN  IF i = 0
        THEN [out |-> Raise("IndexError", "list index out of range"),
              calls |-> <<FunctionCall(at, Return(f_x))>>]
        ELSE [out |-> PyTrueDiv(PySub(f_x_plus_delta, f_x), delta),
              calls |-> <<FunctionCall(at, Return(f_x)),
                          FunctionCall(x_plus_delta, Return(f_x_plus_delta))>>]

\* partial_derivative.  function is a mock that returns side_effect[1],
\* then side_effect[2]; each call is recorded with the list as it is when
\* the call is made.
partial_derivative(side_effect, at, direction, delta) ==
    LET f_x == side_effect[1]
        i == PyIndex(at, direction)
        x_plus_delta == IF i = 0 THEN at
                        ELSE [at EXCEPT ![i] = PyAdd(@, delta)]
        f_x_plus_delta == side_effect[2]
    IN  IF i = 0
        THEN [out |-> Raise("IndexError", "list index out of range"),
              calls |-> <<FunctionCall(at, Return(f_x))>>]
        ELSE [out |-> PyTrueDiv(PySub(f_x_plus_delta, f_x), delta),
              calls |-> <<FunctionCall(at, Return(f_x)),
                          FunctionCall(x_plus_delta, Return(f_x_plus_delta))>>]

AtValues == {PyInt(0), PyInt(1), PyFloat(1, 1)}
Ats == StringsUpTo(AtValues, MaxAtLen)
Directions == -(MaxAtLen + 1)..MaxAtLen
Deltas == {PyFloat(1, 0), PyFloat(1, 1), PyInt(2), PyInt(-1), PyInt(0)}
FunctionResults == {PyInt(0), PyInt(3), PyFloat(1, 1)}

PartialDerivative ==
    /\ op = "none"
    /\ \E at \in Ats, direction \in Directions, delta \in Deltas,
          r1 \in FunctionResults, r2 \in FunctionResults :
        LET r == partial_derivative(<<r1, r2>>, at, direction, delta)
        IN  /\ op' = "partial_derivative"
            /\ args' = [at |-> at, direction |-> direction, delta |-> delta]
            /\ outcome' = r.out
            /\ mock_calls' = r.calls
            /\ UNCHANGED <<branch, calc, kept>>

-----------------------------------------------------------------------------
(* 05Advanced.ipynb.py: smart_square, first version                        *)

ConvertMsg(a) ==
    "a should be of type float/int or convertible to float; got "
        \o ClassRepr(a)

\* Mutation of smart_square_branch: int is missing from the first test and
\* the last branch is a plain else.
smart_square_branch_intless(a) ==
    IF PyIsInstance(a, {"float"}) THEN "if"
    ELSE IF PyIsInstance(a, {"str", "bool"}) THEN "elif"
    ELSE "elif not"

\* The branch of smart_square's if/elif chain that runs for a; "none" when
\* no test holds and the function falls off its end.
smart_square_branch(a) ==
    IF PyIsInstance(a, {"float", "int"}) THEN "if"
    ELSE IF PyIsInstance(a, {"str", "bool"}) THEN "elif"
    ELSE IF ~PyIsInstance(a, {"float", "int", "bool", "str"}) THEN "elif not"
    ELSE "none"

\* Mutation of smart_square: the first branch squares float(a).
smart_square_tofloat(a) ==
    LET b == smart_square_branch(a)
        f == PyFloatOf(a)
    IN  CASE b \in {"if", "elif"} ->
                IF f.kind = "raise" /\ f.exc = "ValueError"
                THEN Raise("ValueError", ConvertMsg(a))
                ELSE Return(PyMul(f.value, f.value))
          [] b = "elif not" -> Raise("NotImplementedError", "")
          [] OTHER -> Return(PyNone)

\* Mutation of smart_square: float()'s ValueError is not caught.
smart_square_nocatch(a) ==
    LET b == smart_square_branch(a)
        f == PyFloatOf(a)
    IN  CASE b = "if" -> Return(PyMul(a, a))
          [] b = "elif" ->
                IF f.kind = "raise" THEN f
                ELSE Return(PyMul(f.value, f.value))
          [] b = "elif not" -> Raise("NotImplementedError", "")
          [] OTHER -> Return(PyNone)

\* smart_square, first version.
smart_square(a) ==
    LET b == smart_square_branch(a)
        f == PyFloatOf(a)
    IN  CASE b = "if" -> Return(PyMul(a, a))
          [] b = "elif" ->
                IF f.kind = "raise" /\ f.exc = "ValueError"
                THEN Raise("ValueError", ConvertMsg(a))
                ELSE Return(PyMul(f.value, f.value))
          [] b = "elif not" -> Raise("NotImplementedError", "")
          [] OTHER -> Return(PyNone)

\* Mutation of smart_square_2: the try/except went with the dead branch.
smart_square_2_nocatch(a) ==
    IF PyIsInstance(a, {"float", "int"}) THEN Return(PyMul(a, a))
    ELSE IF PyIsInstance(a, {"str", "bool"})
    THEN LET f == PyFloatOf(a)
         IN  IF f.kind = "raise" THEN f
             ELSE Return(PyMul(f.value, f.value))
    ELSE Return(PyNone)

\* smart_square, second version: the NotImplementedError branch is gone.
smart_square_2(a) ==
    IF PyIsInstance(a, {"float", "int"}) THEN Return(PyMul(a, a))
    ELSE IF PyIsInstance(a, {"str", "bool"})
    THEN LET f == PyFloatOf(a)
         IN  IF f.kind = "raise" /\ f.exc = "ValueError"
             THEN Raise("ValueError", ConvertMsg(a))
             ELSE Return(PyMul(f.value, f.value))
    ELSE Return(PyNone)

StrChars == {"2", "5", ".", "-", " ", "x"}
\* str arguments: every text that float() refuses, and every text whose
\* decimal a float holds exactly.
Strs == {s \in StringsUpTo(StrChars, MaxStrLen) :
            ParseDecimal(s).ok => ExactDecimal(ParseDecimal(s))}
SquareArgs ==
    {PyInt(n) : n \in -3..3}
        \cup {PyFloat(4, 1), PyFloat(1, 1), PyFloat(-3, 1), PyFloat(1, 2)}
        \cup {PyBool(b) : b \in BOOLEAN}
        \cup {PyStrVal(s) : s \in Strs}
        \cup {PyNone}

SmartSquare ==
    /\ op = "none"
    /\ \E a \in SquareArgs :
        /\ op' = "smart_square"
        /\ args' = [a |-> a]
        /\ outcome' = smart_square(a)
        /\ branch' = smart_square_branch(a)
        /\ mock_calls' = <<>>
        /\ versions' = <<smart_square(a), smart_square_2(a)>>
        /\ UNCHANGED <<calc, globals, history, graph, heap>>

NextTesting == MapAt \/ PartialDerivative \/ SmartSquare

-----------------------------------------------------------------------------
(* greengraph/graph.py: Greengraph                                         *)

\* Greengraph.__init__.  steps and green_at_each_location are attributes
\* the instance gets later: has_steps and has_green say whether it has them.
Greengraph(start, end) ==
    [start |-> start, end |-> end,
     has_steps |-> FALSE, steps |-> 0,
     has_green |-> FALSE, green_at_each_location |-> <<>>]

NewGreengraph == Greengraph("London", "Cambridge")

\* One call to an outbound service or to the plotting library.
Outbound(fn, arg) == [fn |-> fn, arg |-> arg]

\* The tile fetches Map(...) makes for the locations first..last.
TileFetches(first, last) ==
    [i \in 1..(last - first + 1) |-> Outbound("requests.get", first + i - 1)]

\* What the outbound services do during one call: env.fail = 0 when all
\* answer, 1 or 2 when geocoding the start or the end raises, 2 + k when
\* the fetch of tile k raises; env.tiles[i] is the green count of tile i.
Envs(steps) ==
    [fail : 0..(steps + 2), tiles : [1..steps -> {0, 5}]]

\* Greengraph.green_between: the instance afterwards, the outcome and the
\* outbound calls made.
green_between(self, steps, env) ==
    LET self1 == [self EXCEPT !.has_steps = TRUE, !.steps = steps]
        geo1 == <<Outbound("geocode", self.start)>>
        geo2 == geo1 \o <<Outbound("geocode", self.end)>>
    IN  IF env.fail = 1
        THEN [self |-> self1, out |-> Raise("GeocoderServiceError", ""),
              calls |-> geo1]
        ELSE IF env.fail = 2
        THEN [self |-> self1, out |-> Raise("GeocoderServiceError", ""),
              calls |-> geo2]
        ELSE IF env.fail > 2
        THEN [self |-> self1, out |-> Raise("ConnectionError", ""),
              calls |-> geo2 \o TileFetches(1, env.fail - 2)]
        ELSE [self |-> [self1 EXCEPT !.has_green = TRUE,
                                     !.green_at_each_location = env.tiles],
              out |-> Return(env.tiles),
              calls |-> geo2 \o TileFetches(1, steps)]

\* range(0, steps, step)
PyRange(steps, step) ==
    [i \in 1..((steps + step - 1) \div step) |-> (i - 1) * step]

\* The pyplot calls at the end of plot_green_between.
Plot(self, green_between_locations, steps) ==
    <<Outbound("plt.plot", green_between_locations),
      Outbound("plt.xticks", PyRange(steps, IF steps > 10 THEN 5 ELSE 1))>>

\* Mutation of plot_green_between: the stored list is never reused.
plot_green_between_nocache(self, steps, env) ==
    LET r == green_between(self, steps, env)
    IN  IF r.out.kind = "raise"
        THEN [self |-> r.self, out |-> r.out, branch |-> "if",
              calls |-> r.calls]
        ELSE [self |-> r.self, out |-> Return(PyNone), branch |-> "if",
              calls |-> r.calls \o Plot(r.self, r.out.value, steps)]

\* Greengraph.plot_green_between
plot_green_between(self, steps, env) ==
    IF ~self.has_green \/ steps # self.steps
    THEN LET r == green_between(self, steps, env)
         IN  IF r.out.kind = "raise"
             THEN [self |-> r.self, out |-> r.out, branch |-> "if",
                   calls |-> r.calls]
             ELSE [self |-> r.self, out |-> Return(PyNone), branch |-> "if",
                   calls |-> r.calls \o Plot(r.self, r.out.value, steps)]
    ELSE [self |-> self, out |-> Return(PyNone), branch |-> "else",
          calls |-> Plot(self, self.green_at_each_location, steps)]

Steps == 0..MaxSteps

GreenBetween ==
    \E steps \in Steps :
        \E env \in Envs(steps) :
            LET r == green_between(graph, steps, env)
            IN  /\ op' = "green_between"
                /\ args' = [steps |-> steps]
                /\ graph' = r.self
                /\ outcome' = r.out
                /\ mock_calls' = r.calls
                /\ branch' = "none"
                /\ UNCHANGED <<calc, versions, globals, history, heap>>

PlotGreenBetween ==
    \E steps \in Steps :
        \E env \in Envs(steps) :
            LET r == plot_green_between(graph, steps, env)
            IN  /\ op' = "plot_green_between"
                /\ args' = [steps |-> steps]
                /\ graph' = r.self
                /\ outcome' = r.out
                /\ mock_calls' = r.calls
                /\ branch' = r.branch
                /\ UNCHANGED <<calc, versions, globals, history, heap>>

NextGreengraph == GreenBetween \/ PlotGreenBetween

-----------------------------------------------------------------------------
(* 120dataclass.ipynb.py: append_to_list                                   *)

\* The list object that `def append_to_list(el, lst=[])` creates once, when
\* the function is defined, is list 1 of the heap.
DefaultList == 1
NewHeap == <<(<<>>)>>

\* No lst argument.
Omitted == 0

\* Mutation of append_to_list: a new list for every call that omits lst
\* (lst=None, then lst = []).
append_to_list_fresh(h, el, lst) ==
    IF lst = Omitted
    THEN [heap |-> Append(h, <<el>>),
          out |-> Return([ref |-> Len(h) + 1, items |-> <<el>>])]
    ELSE [heap |-> [h EXCEPT ![lst] = Append(@, el)],
          out |-> Return([ref |-> lst, items |-> Append(h[lst], el)])]

\* append_to_list(el, lst) on heap h: lst is a list of the heap, or
\* Omitted.  The list itself is returned, not a copy: the value names the
\* list (ref) and shows its items at the return.
append_to_list(h, el, lst) ==
    LET l == IF lst = Omitted THEN DefaultList ELSE lst
    IN  [heap |-> [h EXCEPT ![l] = Append(@, el)],
         out |-> Return([ref |-> l, items |-> Append(h[l], el)])]

Elements == {0, 1}
\* The lists a caller writes as the lst argument.
Literals == {<<>>, <<7>>}

\* The lists the caller can pass: those it passed or was handed before.
\* It holds the default list once a call has returned it.
Held == {l \in 1..Len(heap) : l # DefaultList \/ heap[DefaultList] # <<>>}

AppendCall(el, lst, h) ==
    LET r == append_to_list(h, el, lst)
        before == IF lst = Omitted THEN h[DefaultList] ELSE h[lst]
        call == [op |-> "append_to_list",
                 args |-> [el |-> el, lst |-> lst, before |-> before],
                 outcome |-> r.out]
    IN  /\ op' = call.op
        /\ args' = call.args
        /\ outcome' = call.outcome
        /\ heap' = r.heap
        /\ history' = Append(history, call)
        /\ UNCHANGED <<mock_calls, branch, calc, versions, globals, graph>>

\* append_to_list(el)
AppendOmitted ==
    /\ Len(history) < MaxCalls
    /\ \E el \in Elements : AppendCall(el, Omitted, heap)

\* append_to_list(el, x) for a list x the caller holds
AppendHeld ==
    /\ Len(history) < MaxCalls
    /\ \E el \in Elements, lst \in Held : AppendCall(el, lst, heap)

\* append_to_list(el, [...]) with a list written in the call
AppendLiteral ==
    /\ Len(history) < MaxCalls
    /\ \E el \in Elements, items \in Literals :
            AppendCall(el, Len(heap) + 1, Append(heap, items))

NextAppend == AppendOmitted \/ AppendHeld \/ AppendLiteral

-----------------------------------------------------------------------------
(* 120dataclass.ipynb.py: the two Person classes                           *)

PyTuple(items) == [t |-> "tuple", num |-> 0, exp |-> 0, s |-> items]

\* v[i] for a tuple or a str; a number cannot be subscripted.
PySubscript(v, i) ==
    IF v.t = "tuple" THEN PyGetItem(v.s, PyInt(i))
    ELSE IF v.t = "str"
    THEN LET r == PyGetItem(v.s, PyInt(i))
         IN  IF r.kind = "return" THEN Return(PyStrVal(<<r.value>>)) ELSE r
    ELSE Raise("TypeError", "'" \o v.t \o "' object is not subscriptable")

\* a == b on the values used here: values of different types differ
\* (bool and float do not occur among them).
PyEq(a, b) == a.t = b.t /\ a = b

PersonObject(birth_day, birth_month, birth_year, name) ==
    [birth_day |-> birth_day, birth_month |-> birth_month,
     birth_year |-> birth_year, name |-> name]

\* The hand-written Person.__init__: it subscripts its first three
\* arguments; the first subscript that fails ends the construction.
Person_init(birth_day, birth_month, birth_year, name) ==
    LET d == PySubscript(birth_day, 0)
        m == PySubscript(birth_month, 1)
        y == PySubscript(birth_year, 2)
    IN  IF d.kind = "raise" THEN d
        ELSE IF m.kind = "raise" THEN m
        ELSE IF y.kind = "raise" THEN y
        ELSE Return(PersonObject(d.value, m.value, y.value, name))

\* The hand-written Person.__eq__
Person_eq(self, other) ==
    Return(PyBool(/\ PyEq(self.birth_day, other.birth_day)
                  /\ PyEq(self.birth_month, other.birth_month)
                  /\ PyEq(self.birth_year, other.birth_year)
                  /\ PyEq(self.name, other.name)))

\* The __init__ that @dataclass generates: one assignment per field.
Person_dataclass_init(birth_day, birth_month, birth_year, name) ==
    Return(PersonObject(birth_day, birth_month, birth_year, name))

\* The __eq__ that @dataclass generates for two instances of the class:
\* the tuples of fields are compared, element by element.
Person_dataclass_eq(self, other) ==
    LET fields(p) == <<p.birth_day, p.birth_month, p.birth_year, p.name>>
    IN  Return(PyBool(\A i \in 1..4 : PyEq(fields(self)[i], fields(other)[i])))

\* The values handed to the constructors: the numbers of the notebook's
\* two calls, and tuples (the only arguments the hand-written __init__
\* can subscript).
DateValues ==
    {PyInt(7), PyInt(16),
     PyTuple(<<PyInt(7), PyInt(1), PyInt(2002)>>),
     PyTuple(<<PyInt(16), PyInt(3)>>)}

\* Person(birth_day, birth_month, birth_year, name), with each class.
\* At most two persons are built (p1 and p2).
NewPerson ==
    /\ op \in {"none", "Person"}
    /\ Len(history) < 2
    /\ \E d \in DateValues, m \in DateValues, y \in DateValues,
          name \in {PyStrVal(<<"S">>), PyStrVal(<<"H">>)} :
        LET both == <<Person_init(d, m, y, name),
                      Person_dataclass_init(d, m, y, name)>>
        IN  /\ op' = "Person"
            /\ args' = <<d, m, y, name>>
            /\ versions' = both
            /\ history' = Append(history, [op |-> "Person",
                                           args |-> <<d, m, y, name>>,
                                           outcome |-> both])
            /\ UNCHANGED <<outcome, mock_calls, branch, calc, globals, graph,
                           heap>>

\* p == q for two of the persons built, with each class.  The hand-written
\* class has instances to compare only when its constructions returned.
PersonEq ==
    /\ op = "Person"
    /\ \E i \in 1..Len(history), j \in 1..Len(history) :
        /\ history[i].outcome[1].kind = "return"
        /\ history[j].outcome[1].kind = "return"
        /\ op' = "__eq__"
        /\ args' = <<i, j>>
        /\ versions' = <<Person_eq(history[i].outcome[1].value,
                                   history[j].outcome[1].value),
                         Person_dataclass_eq(history[i].outcome[2].value,
                                             history[j].outcome[2].value)>>
        /\ UNCHANGED <<outcome, mock_calls, branch, calc, globals, history,
                       graph, heap>>

NextDataclass == NewPerson \/ PersonEq

-----------------------------------------------------------------------------
(* 115typehints.ipynb.py: the four versions of Calculator                  *)
(* The versions are numbered in the order of the notebook: 1 untyped,      *)
(* 2 Union-typed, 3 '|'-typed, 4 TypeAlias/TypeVar-typed.  Apart from the  *)
(* annotations, which Python does not enforce, the bodies of add,          *)
(* add_multi, subtract, multiply, divide and transform are the same text   *)
(* in the four versions; the body of idx is not.                           *)

CalcVersions == 1..4

\* An instance of a class without __index__, like the notebook's A().
PyObject(cls) == [t |-> cls, num |-> 0, exp |-> 0, s |-> <<>>]

\* sum(iterable): 0 + x1 + x2 + ...
RECURSIVE PySum(_)
PySum(xs) ==
    IF xs = <<>> THEN PyInt(0)
    ELSE PyAdd(PySum(SubSeq(xs, 1, Len(xs) - 1)), xs[Len(xs)])

Calculator_add(self, b) == Return(PyAdd(self.a, b))
Calculator_add_multi(self, b) == Return(PySum(<<self.a>> \o b))
Calculator_subtract(self, b) == Return(PySub(self.a, b))
Calculator_multiply(self, b) == Return(PyMul(self.a, b))
Calculator_divide(self, b, check_zero) ==
    IF PyTruthy(check_zero) /\ b.num = 0 THEN Return(PyNone)
    ELSE PyTrueDiv(self.a, b)

\* tfm(self.a) for the built-in callables str, float and bool
Calculator_transform(self, tfm) ==
    CASE tfm = "str" -> Return(PyStrVal(PyStr(self.a)))
      [] tfm = "float" -> PyFloatOf(self.a)
      [] tfm = "bool" -> Return(PyBool(PyTruthy(self.a)))

\* idx of versions 1 to 3: the body names a, not self.a, so Python looks
\* a up among the module-level variables g when the method runs.
idx_global(self, g, sqnc) ==
    IF g.a = Unbound THEN Raise("NameError", "name 'a' is not defined")
    ELSE IF g.a.t = "float" THEN Raise("ValueError", "a should be int")
    ELSE LET rslt == PyGetItem(sqnc, g.a)
         IN  IF rslt.kind = "raise" /\ rslt.exc = "IndexError"
             THEN Raise("ValueError", "sequence too small")
             ELSE rslt

\* idx of each version on a str; an element of a str is a str of length
\* one.
Calculator_idx(version, self, g, sqnc) ==
    LET o == IF version = 4 THEN idx(self, sqnc).out
             ELSE idx_global(self, g, sqnc)
    IN  IF o.kind = "return" THEN Return(PyStrVal(<<o.value>>)) ELSE o

\* The values the notebook binds to the module-level name a:
\* a = 5.5, a = add(1, 2), a = A().
BoundToA == {PyFloat(11, 1), PyInt(3), PyObject("A")}

\* The arguments b of the methods; each is zero or plus or minus a power
\* of two, the divisors PyTrueDiv handles.
CalcArgs == {PyInt(0), PyInt(2), PyInt(-4), PyBool(TRUE), PyFloat(1, 1)}

\* A module-level assignment a = ...
BindA ==
    /\ op \in {"none", "Calculator"}
    /\ \E v \in BoundToA :
        /\ globals' = [globals EXCEPT !.a = v]
        /\ UNCHANGED <<op, args, outcome, mock_calls, branch, calc, versions,
                       history, graph, heap>>

\* A method is called on the instance built from the same value with each
\* of the four classes.
MethodCalled(method, margs, each) ==
    /\ op' = method
    /\ args' = margs
    /\ versions' = each
    /\ UNCHANGED <<outcome, mock_calls, branch, calc, globals, history, graph,
                   heap>>

CalcAdd ==
    /\ op = "Calculator"
    /\ \E b \in CalcArgs :
        MethodCalled("add", <<b>>,
                     [v \in CalcVersions |-> Calculator_add(calc, b)])

CalcAddMulti ==
    /\ op = "Calculator"
    /\ \E b \in {<<>>} \cup {<<x>> : x \in CalcArgs}
                    \cup {<<x, y>> : x \in CalcArgs, y \in CalcArgs} :
        MethodCalled("add_multi", b,
                     [v \in CalcVersions |-> Calculator_add_multi(calc, b)])

CalcSubtract ==
    /\ op = "Calculator"
    /\ \E b \in CalcArgs :
        MethodCalled("subtract", <<b>>,
                     [v \in CalcVersions |-> Calculator_subtract(calc, b)])

CalcMultiply ==
    /\ op = "Calculator"
    /\ \E b \in CalcArgs :
        MethodCalled("multiply", <<b>>,
                     [v \in CalcVersions |-> Calculator_multiply(calc, b)])

CalcDivide ==
    /\ op = "Calculator"
    /\ \E b \in CalcArgs,
          check_zero \in {PyBool(TRUE), PyBool(FALSE), PyNone} :
        MethodCalled("divide", <<b, check_zero>>,
                     [v \in CalcVersions |->
                         Calculator_divide(calc, b, check_zero)])

CalcTransform ==
    /\ op = "Calculator"
    /\ \E tfm \in {"str", "float", "bool"} :
        MethodCalled("transform", <<tfm>>,
                     [v \in CalcVersions |-> Calculator_transform(calc, tfm)])

CalcIdx ==
    /\ op = "Calculator"
    /\ \E sqnc \in Sqncs :
        MethodCalled("idx", sqnc,
                     [v \in CalcVersions |->
                         Calculator_idx(v, calc, globals, sqnc)])

NextCalcVersions ==
    \/ NewCalculator
    \/ BindA
    \/ CalcAdd
    \/ CalcAddMulti
    \/ CalcSubtract
    \/ CalcMultiply
    \/ CalcDivide
    \/ CalcTransform
    \/ CalcIdx

-----------------------------------------------------------------------------
(* greengraph/map.py and ch04performance/020numpy.ipynb.py: the numerical  *)
(* routines.  A 2-D array is a sequence of rows of equal length; a complex *)
(* number is kept to integer real and imaginary parts, on which z**2 + c   *)
(* and the comparisons of abs(z) with 2 are exact.                         *)

Complex(re, im) == [re |-> re, im |-> im]
CAdd(z, w) == Complex(z.re + w.re, z.im + w.im)
CMul(z, w) == Complex(z.re * w.re - z.im * w.im, z.re * w.im + z.im * w.re)
\* abs(z) ** 2
Norm2(z) == z.re * z.re + z.im * z.im
\* z * np.conj(z) > 4: numpy orders complex numbers by real part, then by
\* imaginary part.
ConjProductOver4(z) ==
    LET p == CMul(z, Complex(z.re, -z.im))
    IN  p.re > 4 \/ (p.re = 4 /\ p.im > 0)

Shape(A) == <<Len(A), Len(A[1])>>
\* np.zeros(shape)
Zeros(shape) == [r \in 1..shape[1] |-> [c \in 1..shape[2] |-> 0]]

\* Map.deg2num for a latitude in whole degrees that is tabulated here:
\* (1.0 - asinh(tan(lat_rad)) / pi) / 2.0 in units of 1/1024, rounded
\* down, which gives the tile row for every zoom up to 10.
MercatorUnits(latitude) ==
    CASE latitude = 0 -> 512
      [] latitude = 45 -> 368
      [] latitude = -45 -> 655
      [] latitude = 60 -> 297

\* Map.deg2num for a longitude in whole degrees from -180 to 180: the
\* quotient by 360.0 is rounded by less than the distance to the next
\* whole tile, and int() cuts the fraction.
deg2num(latitude, longitude, zoom) ==
    LET n == Pow(2, zoom)
        x_tiles_coord == ((longitude + 180) * n) \div 360
        y_tiles_coord == (MercatorUnits(latitude) * n) \div 1024
    IN  Return(<<x_tiles_coord, y_tiles_coord>>)

\* Map.green: pixels[r][c] is <<red, green, blue>> (uint8), threshold a
\* float; the products are floats, exact for a dyadic threshold.
green(pixels, threshold) ==
    LET exceeds(g, x) ==
            g * Pow(2, threshold.exp) > threshold.num * x
        greener_than_red ==
            [r \in DOMAIN pixels |-> [c \in DOMAIN pixels[r] |->
                exceeds(pixels[r][c][2], pixels[r][c][1])]]
        greener_than_blue ==
            [r \in DOMAIN pixels |-> [c \in DOMAIN pixels[r] |->
                exceeds(pixels[r][c][2], pixels[r][c][3])]]
    IN  Return([r \in DOMAIN pixels |-> [c \in DOMAIN pixels[r] |->
                    greener_than_red[r][c] /\ greener_than_blue[r][c]]])

\* mandel1, for one complex number
RECURSIVE mandel1_while(_, _, _)
mandel1_while(value, position, limit) ==
    IF Norm2(value) < 4
    THEN IF limit - 1 < 0 THEN 0
         ELSE mandel1_while(CAdd(CMul(value, value), position), position,
                            limit - 1)
    ELSE limit

mandel1(position, limit) ==
    Return(PyInt(mandel1_while(position, position, limit)))

\* value**2 + position, element by element
Stepped(value, position) ==
    [r \in DOMAIN value |-> [c \in DOMAIN value[r] |->
        CAdd(CMul(value[r][c], value[r][c]), position[r][c])]]

\* value[diverging] = 2
Capped(value, diverging) ==
    [r \in DOMAIN value |-> [c \in DOMAIN value[r] |->
        IF diverging[r][c] THEN Complex(2, 0) ELSE value[r][c]]]

RECURSIVE mandel_numpy_while(_, _, _)
mandel_numpy_while(value, position, limit) ==
    IF limit > 0
    THEN LET v == Stepped(value, position)
             diverging == [r \in DOMAIN v |-> [c \in DOMAIN v[r] |->
                              Norm2(v[r][c]) > 4]]
         IN  mandel_numpy_while(Capped(v, diverging), position, limit - 1)
    ELSE value

mandel_numpy(position, limit) ==
    LET value == mandel_numpy_while(position, position, limit)
    IN  Return([r \in DOMAIN value |-> [c \in DOMAIN value[r] |->
                    Norm2(value[r][c]) < 4]])

\* diverged_at_count[first_diverged_this_time] = limit
Counted(diverged_at_count, diverging, limit) ==
    [r \in DOMAIN diverging |-> [c \in DOMAIN diverging[r] |->
        IF diverging[r][c] /\ diverged_at_count[r][c] = 0
        THEN limit ELSE diverged_at_count[r][c]]]

RECURSIVE mandel4_while(_, _, _, _)
mandel4_while(value, diverged_at_count, position, limit) ==
    IF limit > 0
    THEN LET v == Stepped(value, position)
             diverging == [r \in DOMAIN v |-> [c \in DOMAIN v[r] |->
                              Norm2(v[r][c]) > 4]]
         IN  mandel4_while(Capped(v, diverging),
                           Counted(diverged_at_count, diverging, limit - 1),
                           position, limit - 1)
    ELSE diverged_at_count

mandel4(position, limit) ==
    Return(mandel4_while(position, Zeros(Shape(position)), position, limit))

RECURSIVE mandel5_while(_, _, _, _)
mandel5_while(value, diverged_at_count, position, limit) ==
    IF limit > 0
    THEN LET v == Stepped(value, position)
             diverging == [r \in DOMAIN v |-> [c \in DOMAIN v[r] |->
                              ConjProductOver4(v[r][c])]]
         IN  mandel5_while(Capped(v, diverging),
                           Counted(diverged_at_count, diverging, limit - 1),
                           position, limit - 1)
    ELSE diverged_at_count

mandel5(position, limit) ==
    Return(mandel5_while(position, Zeros(Shape(position)), position, limit))

RECURSIVE mandel6_while(_, _, _, _, _)
mandel6_while(value, calculating, diverged_at_count, position, limit) ==
    IF limit > 0
    THEN LET v == [r \in DOMAIN value |-> [c \in DOMAIN value[r] |->
                      IF calculating[r][c]
                      THEN CAdd(CMul(value[r][c], value[r][c]),
                                position[r][c])
                      ELSE value[r][c]]]
             diverging_now ==
                [r \in DOMAIN value |-> [c \in DOMAIN value[r] |->
                    calculating[r][c] /\ ConjProductOver4(v[r][c])]]
         IN  mandel6_while(
                v,
                [r \in DOMAIN value |-> [c \in DOMAIN value[r] |->
                    calculating[r][c] /\ ~diverging_now[r][c]]],
                [r \in DOMAIN value |-> [c \in DOMAIN value[r] |->
                    IF diverging_now[r][c] THEN limit - 1
                    ELSE diverged_at_count[r][c]]],
                position, limit - 1)
    ELSE diverged_at_count

mandel6(position, limit) ==
    Return(mandel6_while(position,
                         [r \in DOMAIN position |->
                            [c \in DOMAIN position[r] |-> TRUE]],
                         Zeros(Shape(position)), position, limit))

\* mandel7 keeps, after its first pass, only the elements that have not
\* diverged, in row order, each with its pair of indices: carried is the
\* sequence of [r, c, value, position] of these elements.
Carried(position) ==
    LET shape == Shape(position)
    IN  [k \in 1..(shape[1] * shape[2]) |->
            LET r == ((k - 1) \div shape[2]) + 1
                c == ((k - 1) % shape[2]) + 1
            IN  [r |-> r, c |-> c, value |-> position[r][c],
                 position |-> position[r][c]]]

RECURSIVE mandel7_while(_, _, _)
mandel7_while(carried, diverged_at_count, limit) ==
    IF limit > 0
    THEN LET v == [k \in DOMAIN carried |->
                    [carried[k] EXCEPT
                        !.value = CAdd(CMul(@, @), carried[k].position)]]
             diverging_now(e) == ConjProductOver4(e.value)
         IN  mandel7_while(
                SelectSeq(v, LAMBDA e : ~diverging_now(e)),
                [r \in DOMAIN diverged_at_count |->
                    [c \in DOMAIN diverged_at_count[r] |->
                        IF \E k \in DOMAIN v :
                                /\ v[k].r = r
                                /\ v[k].c = c
                                /\ diverging_now(v[k])
                        THEN limit - 1 ELSE diverged_at_count[r][c]]],
                limit - 1)
    ELSE diverged_at_count

\* mandel7 builds its index grid from values.shape, the shape of the
\* module-level array values (g.values), not of position; the first
\* indices[:, diverging_now] fails when the two shapes differ.  Of the
\* array values only the shape is kept (g.values.s).
mandel7(position, limit, g) ==
    IF g.values = Unbound
    THEN Raise("NameError", "name 'values' is not defined")
    ELSE IF limit > 0 /\ g.values.s # Shape(position)
    THEN Raise("IndexError", "boolean index did not match indexed array")
    ELSE Return(mandel7_while(Carried(position), Zeros(Shape(position)),
                              limit))

\* The inputs of the routines.
Points == {Complex(0, 0), Complex(1, 0), Complex(-1, 0), Complex(1, 1)}
Shapes == {<<1, 1>>, <<1, 2>>, <<2, 1>>}
Positions == UNION {[1..sh[1] -> [1..sh[2] -> Points]] : sh \in Shapes}
Pixels == [1..1 -> [1..1 -> [1..3 -> {0, 100, 200}]]]

\* A routine is called for the first time, or a second time with the
\* arguments of the first call.
RoutineCalled(routine, a, out) ==
    /\ \/ history = <<>>
       \/ /\ Len(history) = 1
          /\ history[1].op = routine
          /\ history[1].args = a
    /\ op' = routine
    /\ args' = a
    /\ outcome' = out
    /\ history' = Append(history,
                         [op |-> routine, args |-> a, outcome |-> out])
    /\ UNCHANGED <<mock_calls, branch, calc, versions, globals, graph, heap>>

\* A module-level assignment values = ..., to an array of some shape.
BindValues ==
    /\ Len(history) < 2
    /\ \E shape \in Shapes :
        /\ globals' = [globals EXCEPT
                          !.values = [t |-> "ndarray", num |-> 0, exp |-> 0,
                                      s |-> shape]]
        /\ UNCHANGED <<op, args, outcome, mock_calls, branch, calc, versions,
                       history, graph, heap>>

Deg2num ==
    /\ Len(history) < 2
    /\ \E latitude \in {0, 45, -45, 60}, longitude \in {-180, -1, 0, 90},
          zoom \in 0..MaxZoom :
        RoutineCalled("deg2num", <<latitude, longitude, zoom>>,
                      deg2num(latitude, longitude, zoom))

Green ==
    /\ Len(history) < 2
    /\ \E pixels \in Pixels,
          threshold \in {PyFloat(1, 0), PyFloat(3, 1), PyFloat(9, 3)} :
        RoutineCalled("green", <<pixels, threshold>>,
                      green(pixels, threshold))

Mandel1 ==
    /\ Len(history) < 2
    /\ \E position \in Points, limit \in 0..MaxLimit :
        RoutineCalled("mandel1", <<position, limit>>,
                      mandel1(position, limit))

MandelNumpy ==
    /\ Len(history) < 2
    /\ \E position \in Positions, limit \in 0..MaxLimit :
        RoutineCalled("mandel_numpy", <<position, limit>>,
                      mandel_numpy(position, limit))

Mandel4 ==
    /\ Len(history) < 2
    /\ \E position \in Positions, limit \in 0..MaxLimit :
        RoutineCalled("mandel4", <<position, limit>>,
                      mandel4(position, limit))

Mandel5 ==
    /\ Len(history) < 2
    /\ \E position \in Positions, limit \in 0..MaxLimit :
        RoutineCalled("mandel5", <<position, limit>>,
                      mandel5(position, limit))

Mandel6 ==
    /\ Len(history) < 2
    /\ \E position \in Positions, limit \in 0..MaxLimit :
        RoutineCalled("mandel6", <<position, limit>>,
                      mandel6(position, limit))

Mandel7 ==
    /\ Len(history) < 2
    /\ \E position \in Positions, limit \in 0..MaxLimit :
        RoutineCalled("mandel7", <<position, limit>>,
                      mandel7(position, limit, globals))

NextRoutines ==
    \/ BindValues
    \/ Deg2num
    \/ Green
    \/ Mandel1
    \/ MandelNumpy
    \/ Mandel4
    \/ Mandel5
    \/ Mandel6
    \/ Mandel7

-----------------------------------------------------------------------------
NoGlobals == [a |-> Unbound, values |-> Unbound]

Init ==
    /\ op = "none"
    /\ args = <<>>
    /\ outcome = Return(NoValue)
    /\ mock_calls = <<>>
    /\ branch = "none"
    /\ calc = NoCalc
    /\ versions = <<>>
    /\ globals = NoGlobals
    /\ history = <<>>
    /\ graph = NewGreengraph
    /\ heap = NewHeap

SpecPerson == Init /\ [][NextPerson]_vars
SpecCalculator == Init /\ [][NextCalculator]_vars
SpecTesting == Init /\ [][NextTesting]_vars
SpecGreengraph == Init /\ [][NextGreengraph]_vars
SpecAppend == Init /\ [][NextAppend]_vars
SpecDataclass == Init /\ [][NextDataclass]_vars
SpecCalcVersions == Init /\ [][NextCalcVersions]_vars
SpecRoutines == Init /\ [][NextRoutines]_vars

-----------------------------------------------------------------------------
(* Properties                                                              *)

Accepted(o, v) == o.kind = "return" /\ o.value = v
Rejected(o, m) == o.kind = "raise" /\ o.exc = "ValueError" /\ o.msg = m
RaisedValueError(o) == o.kind = "raise" /\ o.exc = "ValueError"

HasSpace(name) == \E i \in 1..Len(name) : name[i] = " "

GregorianLeap(y) == y % 4 = 0 /\ (y % 100 # 0 \/ y % 400 = 0)

\* C1: both Person validators reject with ValueError every name that has
\* no space, and never reject a name that has one: the field validator
\* accepts it, and when the model validator rejects the record the error
\* is not the one about the name.
C1_NameNeedsSpace ==
    /\ op = "validate_name_field" =>
        IF HasSpace(args.name) THEN Accepted(outcome, args.name)
        ELSE RaisedValueError(outcome)
    /\ op = "validate_name_model" =>
        IF HasSpace(args.name)
        THEN outcome.kind = "raise" => outcome.msg # NameMsg
        ELSE RaisedValueError(outcome)

\* C1 witness: the model validator has rejected a record with a valid date
\* whose name has no space.
C1_Witness ==
    /\ op = "validate_name_model"
    /\ args = [birth_day |-> 7, birth_month |-> 1, birth_year |-> 2001,
               name |-> <<"x", "x">>]
    /\ Rejected(outcome, NameMsg)

\* C2: the model validator rejects every record (with a valid name) whose
\* birth_month is 4, 6, 9 or 11 and whose birth_day is outside 1..30, with
\* 'birth day should be between 1 and 30'.
C2_ThirtyDayMonths ==
    ( /\ op = "validate_name_model"
      /\ HasSpace(args.name)
      /\ args.birth_month \in {4, 6, 9, 11}
      /\ args.birth_day \notin 1..30 )
    => Rejected(outcome, "birth day should be between 1 and 30")

\* C3: for February of a year that is not a leap year the model validator
\* (given a valid name) accepts every birth_day in 1..28 and rejects the
\* others with 'birth day should be between 1 and 28'.
C3_FebruaryCommonYear ==
    ( /\ op = "validate_name_model"
      /\ HasSpace(args.name)
      /\ args.birth_month = 2
      /\ ~GregorianLeap(args.birth_year) )
    => IF args.birth_day \in 1..28 THEN Accepted(outcome, args)
       ELSE Rejected(outcome, "birth day should be between 1 and 28")

\* C4: the model validator accepts 29 February only in a leap year of the
\* Gregorian calendar.
C4_LeapDayOnlyInLeapYear ==
    ( /\ op = "validate_name_model"
      /\ args.birth_month = 2
      /\ args.birth_day = 29
      /\ outcome.kind = "return" )
    => GregorianLeap(args.birth_year)

\* C5: Calculator.idx never lets an IndexError escape.  With an int a it
\* returns sqnc[a] when that index exists (Python indices: -len..len-1)
\* and raises ValueError('sequence too small') otherwise; with a float a
\* it raises ValueError('a should be int') without subscripting sqnc.
C5_IdxNeverIndexError ==
    op = "idx" =>
        LET a == calc.a
            n == Len(args)
        IN  /\ ~(outcome.kind = "raise" /\ outcome.exc = "IndexError")
            /\ a.t \in {"int", "bool"} =>
                IF -n <= a.num /\ a.num < n
                THEN Accepted(outcome,
                              args[IF a.num < 0 THEN n + a.num + 1
                                   ELSE a.num + 1])
                ELSE Rejected(outcome, "sequence too small")
            /\ a.t = "float" =>
                /\ Rejected(outcome, "a should be int")
                /\ mock_calls = <<>>

\* C5 witness: idx was called with an int a that sqnc is too short for.
C5_Witness ==
    /\ op = "idx"
    /\ calc.a = PyInt(2)
    /\ args = <<"p", "q">>
    /\ Rejected(outcome, "sequence too small")

\* Numeric equality of two numbers, of a number and a sum, of a square.
NumEq(a, b) == a.num * Pow(2, b.exp) = b.num * Pow(2, a.exp)
IsSum(c, a, b) ==
    c.num * Pow(2, a.exp + b.exp)
        = (a.num * Pow(2, b.exp) + b.num * Pow(2, a.exp)) * Pow(2, c.exp)
IsSquare(c, a) == c.num * Pow(2, 2 * a.exp) = a.num * a.num * Pow(2, c.exp)

\* C6: map_at calls requests.get exactly once, with the fixed base URL and
\* a params dict holding exactly z=zoom, size='<w>,<h>', ll='<long>,<lat>',
\* lang='en_US' and l='sat' if satellite is true, l='map' otherwise, and it
\* ends as that call ends.  For map_at(51.0, 0.0) the params are those of
\* test_build_default_params.
C6_MapAtRequest ==
    op = "map_at" =>
        /\ Len(mock_calls) = 1
        /\ LET c == mock_calls[1]
               params == c.kwargs.params
           IN  /\ c.fn = "requests.get"
               /\ c.args = <<"https://static-maps.yandex.ru/1.x/?">>
               /\ DOMAIN c.kwargs = {"params"}
               /\ DOMAIN params = {"z", "size", "ll", "lang", "l"}
               /\ params.z = args.zoom
               /\ params.size
                    = PyStr(args.size[1]) \o <<",">> \o PyStr(args.size[2])
               /\ params.ll = PyStr(args.long) \o <<",">> \o PyStr(args.lat)
               /\ params.lang = "en_US"
               /\ params.l
                    = IF args.satellite = PyBool(TRUE) THEN "sat" ELSE "map"
               /\ outcome = c.result
               /\ ( args = [lat |-> PyFloat(51, 0), long |-> PyFloat(0, 0),
                            satellite |-> PyBool(FALSE), zoom |-> PyInt(12),
                            size |-> <<PyInt(400), PyInt(400)>>] )
                  => params = [z |-> PyInt(12),
                               size |-> <<"4", "0", "0", ",", "4", "0", "0">>,
                               ll |-> <<"0", ".", "0", ",",
                                        "5", "1", ".", "0">>,
                               lang |-> "en_US",
                               l |-> "map"]

\* C6 witness: map_at(51.5, -0.125, satellite=True) has sent its request
\* and returned the response.
C6_Witness ==
    /\ op = "map_at"
    /\ args.lat = PyFloat(103, 1)
    /\ args.long = PyFloat(-1, 3)
    /\ args.satellite = PyBool(TRUE)
    /\ Len(mock_calls) = 1
    /\ mock_calls[1].kwargs.params.ll
        = <<"-", "0", ".", "1", "2", "5", ",", "5", "1", ".", "5">>
    /\ mock_calls[1].kwargs.params.l = "sat"
    /\ outcome = Return("response 200")

\* C7: when direction is an index of at, partial_derivative calls function
\* exactly twice, first with a list equal to at, then with a list equal to
\* at except that the entry at index direction is increased by delta, and
\* it ends as (second result - first result) / delta does: with that
\* quotient, or with ZeroDivisionError when delta is 0.
C7_PartialDerivativeCalls ==
    ( /\ op = "partial_derivative"
      /\ -Len(args.at) <= args.direction
      /\ args.direction < Len(args.at) )
    => /\ Len(mock_calls) = 2
       /\ LET at == args.at
              delta == args.delta
              i == IF args.direction < 0 THEN Len(at) + args.direction + 1
                   ELSE args.direction + 1
              first == mock_calls[1]
              second == mock_calls[2]
              x == second.args[1]
              f1 == first.result.value
              f2 == second.result.value
          IN  /\ Len(first.args) = 1 /\ Len(second.args) = 1
              /\ Len(first.args[1]) = Len(at)
              /\ \A j \in 1..Len(at) : NumEq(first.args[1][j], at[j])
              /\ Len(x) = Len(at)
              /\ \A j \in 1..Len(at) : j # i => NumEq(x[j], at[j])
              /\ IsSum(x[i], at[i], delta)
              /\ IF delta.num = 0
                 THEN outcome.kind = "raise"
                        /\ outcome.exc = "ZeroDivisionError"
                 ELSE /\ outcome.kind = "return"
                      /\ IsSum(f2, PyMul(outcome.value, delta), f1)

\* C7 witness: the call of test_derivative_2d_y_direction,
\* partial_derivative(func, [0, 0], 1), has called func with [0, 0] and
\* with [0, 1.0].
C7_Witness ==
    /\ op = "partial_derivative"
    /\ args = [at |-> <<PyInt(0), PyInt(0)>>, direction |-> 1,
               delta |-> PyFloat(1, 0)]
    /\ Len(mock_calls) = 2
    /\ mock_calls[1].args = <<(<<PyInt(0), PyInt(0)>>)>>
    /\ mock_calls[2].args = <<(<<PyInt(0), PyFloat(1, 0)>>)>>
    /\ mock_calls[1].result = Return(PyInt(0))
    /\ mock_calls[2].result = Return(PyInt(3))
    /\ outcome = Return(PyFloat(3, 0))

\* C8: smart_square returns a*a as an int for an int a, a*a as a float for
\* a float a, float(a)*float(a) as a float for a str a that float()
\* converts, 1 for True and 0 for False.
C8_SmartSquareValue ==
    op = "smart_square" =>
        LET a == args.a
            f == PyFloatOf(a)
        IN  /\ a.t = "int" => Accepted(outcome, PyInt(a.num * a.num))
            /\ a.t = "float" =>
                /\ outcome.kind = "return"
                /\ outcome.value.t = "float"
                /\ IsSquare(outcome.value, a)
            /\ (a.t = "str" /\ f.kind = "return") =>
                /\ outcome.kind = "return"
                /\ outcome.value.t = "float"
                /\ IsSquare(outcome.value, f.value)
            /\ a.t = "bool" =>
                /\ outcome.kind = "return"
                /\ NumEq(outcome.value, PyInt(IF a = PyBool(TRUE) THEN 1 ELSE 0))
            /\ a = PyStrVal(<<"2">>) => Accepted(outcome, PyFloat(4, 0))

\* C8 witness: smart_square("2.5") has returned the float 6.25.
C8_Witness ==
    /\ op = "smart_square"
    /\ args.a = PyStrVal(<<"2", ".", "5">>)
    /\ Accepted(outcome, PyFloat(25, 2))

\* C9: smart_square raises ValueError("a should be of type float/int or
\* convertible to float; got <class 'str'>") for every str that float()
\* refuses, and raises nothing for an int, a float, a bool or a str that
\* float() converts.
C9_SmartSquareErrors ==
    op = "smart_square" =>
        LET a == args.a
            convertible == PyFloatOf(a).kind = "return"
        IN  /\ (a.t = "str" /\ ~convertible) =>
                Rejected(outcome,
                         "a should be of type float/int or convertible to float; got <class 'str'>")
            /\ (a.t \in {"int", "float", "bool"}
                    \/ (a.t = "str" /\ convertible)) =>
                outcome.kind = "return"

\* C9 witness: smart_square("x") has raised the ValueError.
C9_Witness ==
    /\ op = "smart_square"
    /\ args.a = PyStrVal(<<"x">>)
    /\ RaisedValueError(outcome)

\* C10: in the first version of smart_square the branch that raises
\* NotImplementedError never runs for an argument of type float, int, bool
\* or str: one of the two earlier branches does.
C10_NotImplementedUnreachable ==
    ( /\ op = "smart_square"
      /\ args.a.t \in {"float", "int", "bool", "str"} )
    => /\ branch \in {"if", "elif"}
       /\ ~(outcome.kind = "raise" /\ outcome.exc = "NotImplementedError")

\* C10 witness: smart_square(True) ran the first branch (bool is an int).
C10_Witness ==
    /\ op = "smart_square"
    /\ args.a = PyBool(TRUE)
    /\ branch = "if"

\* Two calls end the same way: with equal return values, or with the same
\* exception and message.
SameOutcome(o1, o2) ==
    /\ o1.kind = o2.kind
    /\ o1.exc = o2.exc
    /\ o1.msg = o2.msg
    /\ o1.kind = "return" =>
        /\ o1.value.t = o2.value.t
        /\ o1.value = o2.value

\* C11: the two versions of smart_square, with and without the
\* NotImplementedError branch, end the same way (same return value or same
\* exception) for every argument of type float, int, bool or str.
C11_DeadBranchRemovable ==
    ( /\ op = "smart_square"
      /\ args.a.t \in {"float", "int", "bool", "str"} )
    => SameOutcome(versions[1], versions[2])

\* C11 witness: both versions have raised the same ValueError for "x".
C11_Witness ==
    /\ op = "smart_square"
    /\ args.a = PyStrVal(<<"x">>)
    /\ RaisedValueError(versions[1])
    /\ RaisedValueError(versions[2])
    /\ versions[1].msg = versions[2].msg

\* The calls of a log made to fn.
CallsTo(calls, fn) == {i \in 1..Len(calls) : calls[i].fn = fn}

\* A call geocoded both places and fetched `steps` tiles.
FetchedAll(calls, self, steps) ==
    /\ Cardinality(CallsTo(calls, "geocode")) = 2
    /\ \E i, j \in CallsTo(calls, "geocode") :
        calls[i].arg = self.start /\ calls[j].arg = self.end
    /\ Cardinality(CallsTo(calls, "requests.get")) = steps

\* C12 as stated: Greengraph keeps no cache, every completed call of
\* green_between(steps) and of plot_green_between(steps) geocodes both
\* place names and fetches steps map tiles again.
C12_NoCache ==
    ( /\ op \in {"green_between", "plot_green_between"}
      /\ outcome.kind = "return" )
    => FetchedAll(mock_calls, graph, args.steps)

\* C12 amended: every completed green_between(steps) geocodes both place
\* names and fetches steps tiles again; so does every completed
\* plot_green_between(steps), except when the instance already holds
\* green_at_each_location and its steps equals the argument: then it makes
\* no outbound call and plots the stored list.
C12_CacheOnlyInPlot ==
    [][ /\ ( op' = "green_between" /\ outcome'.kind = "return" )
            => FetchedAll(mock_calls', graph, args'.steps)
        /\ ( op' = "plot_green_between" /\ outcome'.kind = "return" )
            => IF graph.has_green /\ graph.steps = args'.steps
               THEN /\ CallsTo(mock_calls', "geocode") = {}
                    /\ CallsTo(mock_calls', "requests.get") = {}
                    /\ mock_calls'[1]
                        = Outbound("plt.plot", graph.green_at_each_location)
               ELSE FetchedAll(mock_calls', graph, args'.steps)
      ]_vars

\* C12 witness: plot_green_between(2) has plotted the list an earlier call
\* stored, without an outbound call.
C12_Witness ==
    /\ op = "plot_green_between"
    /\ args.steps = 2
    /\ outcome.kind = "return"
    /\ branch = "else"
    /\ CallsTo(mock_calls, "geocode") = {}
    /\ mock_calls[1] = Outbound("plt.plot", <<5, 0>>)

\* C17: whenever green_at_each_location is set its length equals
\* self.steps, also after calls that failed part-way, so
\* plot_green_between(steps) never plots a stored list whose length
\* differs from steps.
C17_StoredLengthIsSteps ==
    /\ graph.has_green => Len(graph.green_at_each_location) = graph.steps
    /\ ( op = "plot_green_between" /\ outcome.kind = "return" )
        => Len(mock_calls[CHOOSE i \in CallsTo(mock_calls, "plt.plot") : TRUE].arg)
            = args.steps

\* The elements of the calls of a history that omitted lst, in order.
RECURSIVE OmittedEls(_)
OmittedEls(h) ==
    IF h = <<>> THEN <<>>
    ELSE OmittedEls(SubSeq(h, 1, Len(h) - 1))
            \o (IF h[Len(h)].args.lst = Omitted THEN <<h[Len(h)].args.el>>
                ELSE <<>>)

\* Some call of the history was handed the default list as its lst.
PassedBack(h) == \E i \in 1..Len(h) : h[i].args.lst = DefaultList

\* C14 as stated: the calls that omit lst share one list, the n-th of them
\* returns [e1, ..., en]; the calls that pass an explicit lst append to
\* that list only and leave the shared default list as it is, so that it
\* always holds the elements of the calls that omitted lst.
C14_SharedDefaultList ==
    op = "append_to_list" =>
        /\ heap[DefaultList] = OmittedEls(history)
        /\ args.lst = Omitted => outcome.value.items = OmittedEls(history)
        /\ args.lst # Omitted =>
            /\ outcome.value.ref = args.lst
            /\ outcome.value.items = Append(args.before, args.el)

\* C14 amended: every call appends el to one list only, the default list
\* when lst is omitted and the list passed otherwise, and returns that
\* list.  A call that passes a list other than the default list never
\* changes the default list.  As long as no call has been handed the
\* default list back as its lst (every call that omits lst returns it),
\* the n-th call that omits lst returns [e1, ..., en].
C14_SharedUnlessPassedBack ==
    [][ op' = "append_to_list" =>
          LET l == IF args'.lst = Omitted THEN DefaultList ELSE args'.lst
          IN  /\ heap'[l] = Append(args'.before, args'.el)
              /\ outcome'.value = [ref |-> l, items |-> heap'[l]]
              /\ \A k \in 1..Len(heap) : k # l => heap'[k] = heap[k]
              /\ args'.lst = Omitted => args'.before = heap[DefaultList]
              /\ ~PassedBack(history') =>
                    /\ heap'[DefaultList] = OmittedEls(history')
                    /\ args'.lst = Omitted =>
                          outcome'.value.items = OmittedEls(history')
      ]_vars

\* C14 witness: append_to_list(0), append_to_list(1, [7]), append_to_list(1)
\* were called and the last call returned [0, 1].
C14_Witness ==
    /\ op = "append_to_list"
    /\ Len(history) = 3
    /\ history[1].args.lst = Omitted
    /\ history[2].args.lst \notin {Omitted, DefaultList}
    /\ history[2].outcome.value.items = <<7, 1>>
    /\ args.lst = Omitted
    /\ outcome.value = [ref |-> DefaultList, items |-> <<0, 1>>]

\* C15: the hand-written Person and the @dataclass Person are
\* interchangeable: either constructor, called with (birth_day,
\* birth_month, birth_year, name), returns an instance whose four fields
\* hold those values unchanged, and with either class two instances are
\* equal iff the four fields are equal.
C15_Interchangeable ==
    /\ op = "Person" =>
        \A v \in 1..2 :
            /\ versions[v].kind = "return"
            /\ versions[v].value
                  = PersonObject(args[1], args[2], args[3], args[4])
    /\ op = "__eq__" =>
        \A v \in 1..2 :
            LET p == history[args[1]].outcome[v].value
                q == history[args[2]].outcome[v].value
            IN  /\ versions[v].kind = "return"
                /\ versions[v].value = PyBool(p = q)

CalcMethods ==
    {"add", "add_multi", "subtract", "multiply", "divide", "transform", "idx"}

\* C16: the four versions of Calculator differ only in their annotations:
\* built from the same value and called with the same arguments, every
\* method ends the same way (same result or same exception) in the four
\* versions, whatever the module-level variables hold.
C16_VersionsAgree ==
    op \in CalcMethods =>
        \A v \in CalcVersions, w \in CalcVersions :
            SameOutcome(versions[v], versions[w])

Routines ==
    {"deg2num", "green", "mandel1", "mandel_numpy", "mandel4", "mandel5",
     "mandel6", "mandel7"}

\* C13: every numerical routine is stateless: two calls of one routine with
\* equal arguments end the same way (equal results), whatever the
\* module-level variables hold at each call.
C13_Stateless ==
    \A i \in 1..Len(history), j \in 1..Len(history) :
        (/\ history[i].op \in Routines
         /\ history[i].op = history[j].op
         /\ history[i].args = history[j].args)
            => /\ history[i].outcome.kind = history[j].outcome.kind
               /\ history[i].outcome.exc = history[j].outcome.exc
               /\ history[i].outcome.kind = "return"
                    => history[i].outcome.value = history[j].outcome.value

=============================================================================
